---- MODULE Spec2Model ----
(***************************************************************************)
(* Model of rustengan/src/main.rs: a Maelstrom node that reads JSON        *)
(* messages from stdin, answers init / echo / generate requests on stdout  *)
(* and keeps one counter (EchoNode.id).                                     *)
(*                                                                         *)
(* Strings are sequences of one-character strings, so that formatting,     *)
(* concatenation and comparison are computed and not assumed.              *)
(* JSON values are records [j |-> kind, v |-> content]; a JSON object is   *)
(* the ordered sequence of its <<key, value>> members, as serde_json       *)
(* writes it.                                                              *)
(***************************************************************************)
EXTENDS Integers, Sequences, FiniteSets, TLC

VARIABLES id, stdin, pos, output, writable, status, now, log, rt, gen, runs

vars == <<id, stdin, pos, output, writable, status, now, log, rt, gen, runs>>

----------------------------------------------------------------------------
(* Bounds of the model.                                                    *)

MaxInputs == 3      \* longest input stream fed to one run

MaxClock == 1       \* latest second (since the epoch) the system clock gives

MaxCounter == 10    \* largest counter value gen_unique_id is called with

MaxRunInputs == 2   \* most requests one of several independent runs handles

(* std::io::stdout() is a LineWriter whose buffer holds this many bytes.   *)
StdoutCapacity == 1024

----------------------------------------------------------------------------
(* Option<usize>: None is the empty sequence, Some(n) the sequence <<n>>.  *)

None == <<>>

Some(n) == <<n>>

(* JSON values.                                                            *)

JStr(s) == [j |-> "str", v |-> s]

JNum(n) == [j |-> "num", v |-> <<n>>]

JNull == [j |-> "null", v |-> <<>>]

JArr(items) == [j |-> "arr", v |-> items]

JObj(members) == [j |-> "obj", v |-> members]

(* The strings that occur in the model.                                    *)

c1 == <<"c", "1">>

c2 == <<"c", "2">>

n1 == <<"n", "1">>

n2 == <<"n", "2">>

hi == <<"h", "i">>

empty == <<>>

(* A string as long as the buffer of stdout.                               *)
long == [i \in 1..StdoutCapacity |-> "x"]

----------------------------------------------------------------------------
(* enum Payload, struct MessageBody, struct Message.                       *)

Echo(e) == [type |-> "Echo", echo |-> e]

EchoOk(e) == [type |-> "EchoOk", echo |-> e]

InitP(node_id, node_ids) == [type |-> "Init", node_id |-> node_id, node_ids |-> node_ids]

InitOk == [type |-> "InitOk"]

Generate == [type |-> "Generate"]

GenerateOk(uid) == [type |-> "GenerateOk", id |-> uid]

MessageBody(msg_id, in_reply_to, payload) ==
    [msg_id |-> msg_id, in_reply_to |-> in_reply_to, payload |-> payload]

Message(src, dest, body) == [src |-> src, dest |-> dest, body |-> body]

(* #[serde(tag="type")] #[serde(rename_all="snake_case")]: the value of    *)
(* the "type" member for each variant.                                     *)
TypeTag(variant) ==
    CASE variant = "Echo" -> <<"e", "c", "h", "o">>
      [] variant = "EchoOk" -> <<"e", "c", "h", "o", "_", "o", "k">>
      [] variant = "Init" -> <<"i", "n", "i", "t">>
      [] variant = "InitOk" -> <<"i", "n", "i", "t", "_", "o", "k">>
      [] variant = "Generate" -> <<"g", "e", "n", "e", "r", "a", "t", "e">>
      [] variant = "GenerateOk" ->
             <<"g", "e", "n", "e", "r", "a", "t", "e", "_", "o", "k">>

Variants == {"Echo", "EchoOk", "Init", "InitOk", "Generate", "GenerateOk"}

----------------------------------------------------------------------------
(* derive(Serialize).                                                      *)

(* Option<usize> has no skip_serializing_if: None is written as null.      *)
SerOption(o) == IF o = None THEN JNull ELSE JNum(o[1])

RECURSIVE SerStrings(_)
SerStrings(ss) ==
    IF ss = <<>> THEN <<>> ELSE <<JStr(Head(ss))>> \o SerStrings(Tail(ss))

(* The members an internally tagged variant contributes: the tag first,    *)
(* then the variant's fields in declaration order.                         *)
SerPayload(p) ==
    <<<<"type", JStr(TypeTag(p.type))>>>> \o
    CASE p.type \in {"Echo", "EchoOk"} -> <<<<"echo", JStr(p.echo)>>>>
      [] p.type = "Init" ->
             <<<<"node_id", JStr(p.node_id)>>,
               <<"node_ids", JArr(SerStrings(p.node_ids))>>>>
      [] p.type = "GenerateOk" -> <<<<"id", JStr(p.id)>>>>
      [] OTHER -> <<>>

(* SerBody without #[serde(flatten)]: the payload nested under its own key. *)
SerBody_Nested(b) ==
    JObj(<<<<"msg_id", SerOption(b.msg_id)>>,
           <<"in_reply_to", SerOption(b.in_reply_to)>>,
           <<"payload", JObj(SerPayload(b.payload))>>>>)

(* #[serde(flatten)] payload: its members are siblings of the two ids.     *)
SerBody(b) ==
    JObj(<<<<"msg_id", SerOption(b.msg_id)>>,
           <<"in_reply_to", SerOption(b.in_reply_to)>>>> \o SerPayload(b.payload))

Serialize(m) ==
    JObj(<<<<"src", JStr(m.src)>>, <<"dest", JStr(m.dest)>>,
           <<"body", SerBody(m.body)>>>>)

----------------------------------------------------------------------------
(* derive(Deserialize).                                                    *)

Count(obj, k) == Cardinality({i \in 1..Len(obj.v) : obj.v[i][1] = k})

Has(obj, k) == Count(obj, k) > 0

Get(obj, k) == obj.v[CHOOSE i \in 1..Len(obj.v) : obj.v[i][1] = k][2]

(* A required String field: present exactly once and a JSON string.        *)
HasString(obj, k) == Count(obj, k) = 1 /\ Get(obj, k).j = "str"

(* An Option<usize> field: missing or null is None, a non-negative number  *)
(* is Some, anything else (or a repeated key) is an error.                 *)
OptionOk(obj, k) ==
    \/ Count(obj, k) = 0
    \/ /\ Count(obj, k) = 1
       /\ \/ Get(obj, k).j = "null"
          \/ Get(obj, k).j = "num" /\ Get(obj, k).v[1] >= 0

ParseOption(obj, k) ==
    IF Count(obj, k) = 0 \/ Get(obj, k).j = "null" THEN None
    ELSE Some(Get(obj, k).v[1])

RECURSIVE ParseStrings(_)
ParseStrings(items) ==
    IF items = <<>> THEN <<>> ELSE <<Head(items).v>> \o ParseStrings(Tail(items))

(* The variants in declaration order: the derived variant identifier      *)
(* accepts the name of a variant or, as an unsigned integer, its index.    *)
VariantIndex == <<"Echo", "EchoOk", "Init", "InitOk", "Generate", "GenerateOk">>

TagOk(tag) ==
    \/ tag.j = "str" /\ \E variant \in Variants : TypeTag(variant) = tag.v
    \/ tag.j = "num" /\ tag.v[1] \in 0..(Len(VariantIndex) - 1)

VariantOfTag(tag) ==
    IF tag.j = "num" THEN VariantIndex[tag.v[1] + 1]
    ELSE CHOOSE variant \in Variants : TypeTag(variant) = tag.v

(* The internally tagged enum: "type" must identify a variant and the      *)
(* variant's fields must all be present; other members are ignored.        *)
PayloadOk(obj) ==
    /\ Count(obj, "type") = 1
    /\ TagOk(Get(obj, "type"))
    /\ LET variant == VariantOfTag(Get(obj, "type"))
       IN  CASE variant \in {"Echo", "EchoOk"} -> HasString(obj, "echo")
             [] variant = "Init" ->
                    /\ HasString(obj, "node_id")
                    /\ Count(obj, "node_ids") = 1
                    /\ Get(obj, "node_ids").j = "arr"
                    /\ \A i \in 1..Len(Get(obj, "node_ids").v) :
                           Get(obj, "node_ids").v[i].j = "str"
             [] variant = "GenerateOk" -> HasString(obj, "id")
             [] OTHER -> TRUE

ParsePayload(obj) ==
    LET variant == VariantOfTag(Get(obj, "type"))
    IN  CASE variant = "Echo" -> Echo(Get(obj, "echo").v)
          [] variant = "EchoOk" -> EchoOk(Get(obj, "echo").v)
          [] variant = "Init" ->
                 InitP(Get(obj, "node_id").v, ParseStrings(Get(obj, "node_ids").v))
          [] variant = "InitOk" -> InitOk
          [] variant = "Generate" -> Generate
          [] variant = "GenerateOk" -> GenerateOk(Get(obj, "id").v)

BodyOk(obj) ==
    /\ obj.j = "obj"
    /\ OptionOk(obj, "msg_id")
    /\ OptionOk(obj, "in_reply_to")
    /\ PayloadOk(obj)

ParseBody(obj) ==
    MessageBody(ParseOption(obj, "msg_id"), ParseOption(obj, "in_reply_to"),
                ParsePayload(obj))

(* struct Message is read from a JSON object by its keys, or from a JSON   *)
(* array of its three fields in declaration order.                         *)
SrcOf(json) == IF json.j = "arr" THEN json.v[1] ELSE Get(json, "src")

DestOf(json) == IF json.j = "arr" THEN json.v[2] ELSE Get(json, "dest")

BodyOf(json) == IF json.j = "arr" THEN json.v[3] ELSE Get(json, "body")

(* Whether a JSON value deserializes as a Message.                         *)
ParseOk(raw) ==
    \/ /\ raw.j = "obj"
       /\ HasString(raw, "src")
       /\ HasString(raw, "dest")
       /\ Count(raw, "body") = 1
       /\ BodyOk(Get(raw, "body"))
    \/ /\ raw.j = "arr"
       /\ Len(raw.v) = 3
       /\ raw.v[1].j = "str"
       /\ raw.v[2].j = "str"
       /\ BodyOk(raw.v[3])

(* The Message a JSON value deserializes to, when ParseOk.                 *)
Parse(raw) == Message(SrcOf(raw).v, DestOf(raw).v, ParseBody(BodyOf(raw)))

----------------------------------------------------------------------------
(* impl EchoNode.                                                          *)

Digit(d) == <<"0", "1", "2", "3", "4", "5", "6", "7", "8", "9">>[d + 1]

(* to_string() of an unsigned integer: decimal, no padding.                *)
RECURSIVE to_string(_)
to_string(n) == IF n < 10 THEN <<Digit(n)>> ELSE to_string(n \div 10) \o <<Digit(n % 10)>>

(* gen_unique_id that leaves the counter out of the identifier.            *)
gen_unique_id_NoCounter(self_id, dest_node_id, curr_ts) ==
    to_string(curr_ts) \o <<"_">> \o dest_node_id

(* as_secs that keeps the sub-second part (a finer unit, as as_millis).    *)
as_secs_Fractional(duration) == 2 * duration.secs + duration.half

(* Duration::as_secs() of SystemTime::now().duration_since(UNIX_EPOCH): a  *)
(* duration is its whole seconds and the half of the second it falls in;   *)
(* as_secs drops the sub-second part.                                      *)
as_secs(duration) == duration.secs

(* gen_unique_id that passes the counter for both trailing arguments.      *)
gen_unique_id_CounterTwice(self_id, dest_node_id, curr_ts) ==
    to_string(curr_ts) \o <<"_">> \o to_string(self_id) \o <<"_">> \o to_string(self_id)

(* gen_unique_id that leaves the node identifier out.                      *)
gen_unique_id_NoDest(self_id, dest_node_id, curr_ts) ==
    to_string(curr_ts) \o <<"_">> \o to_string(self_id)

(* format!("{}_{}_{}", curr_ts, dest_node_id, self.id) with curr_ts the    *)
(* whole seconds since the epoch read from the system clock.               *)
gen_unique_id(self_id, dest_node_id, curr_ts) ==
    to_string(curr_ts) \o <<"_">> \o dest_node_id \o <<"_">> \o to_string(self_id)

(* InitReply that keeps the request's endpoints instead of swapping them.  *)
InitReply_NotSwapped(self_id, input) ==
    Message(input.src, input.dest,
            MessageBody(Some(self_id),
                        IF input.body.msg_id = None THEN None
                        ELSE Some(input.body.msg_id[1]),
                        InitOk))

(* InitReply that never sets in_reply_to.                                  *)
InitReply_Uncorrelated(self_id, input) ==
    Message(input.dest, input.src, MessageBody(Some(self_id), None, InitOk))

(* The reply built by the Init arm of step.                                *)
InitReply(self_id, input) ==
    Message(input.dest, input.src,
            MessageBody(Some(self_id),
                        IF input.body.msg_id = None THEN None
                        ELSE Some(input.body.msg_id[1]),
                        InitOk))

(* EchoReply that correlates with its own msg_id, not the request's.       *)
EchoReply_SelfCorrelated(self_id, input) ==
    Message(input.dest, input.src,
            MessageBody(Some(self_id), Some(self_id), EchoOk(input.body.payload.echo)))

(* The reply built by the Echo arm of step.                                *)
EchoReply(self_id, input) ==
    Message(input.dest, input.src,
            MessageBody(Some(self_id),
                        IF input.body.msg_id = None THEN None
                        ELSE Some(input.body.msg_id[1]),
                        EchoOk(input.body.payload.echo)))

(* GenerateReply with the payload of the arm it was copied from.           *)
GenerateReply_InitOk(self_id, input, curr_ts) ==
    Message(input.dest, input.src,
            MessageBody(Some(self_id),
                        IF input.body.msg_id = None THEN None
                        ELSE Some(input.body.msg_id[1]),
                        InitOk))

(* GenerateReply that embeds the sender of the request, not its dest.      *)
GenerateReply_FromSrc(self_id, input, curr_ts) ==
    Message(input.dest, input.src,
            MessageBody(Some(self_id),
                        IF input.body.msg_id = None THEN None
                        ELSE Some(input.body.msg_id[1]),
                        GenerateOk(gen_unique_id(self_id, input.src, curr_ts))))

(* The reply built by the Generate arm of step.                            *)
GenerateReply(self_id, input, curr_ts) ==
    Message(input.dest, input.src,
            MessageBody(Some(self_id),
                        IF input.body.msg_id = None THEN None
                        ELSE Some(input.body.msg_id[1]),
                        GenerateOk(gen_unique_id(self_id, input.dest, curr_ts))))

----------------------------------------------------------------------------
(* The streams.                                                            *)

(* What stdout has received, in order: a complete serialized reply, the    *)
(* bytes of a reply whose write failed part-way (a strict prefix of it,    *)
(* possibly empty), or the line terminator.                                *)
Env(json) == [t |-> "env", v |-> json]

Partial == [t |-> "partial", v |-> JNull]

NL == [t |-> "nl", v |-> JNull]

(* The length in bytes of the compact JSON text serde_json writes for a   *)
(* value: the model's strings need no escaping.                            *)
KeyLen(k) ==
    CASE k \in {"id"} -> 2
      [] k \in {"src"} -> 3
      [] k \in {"dest", "body", "type", "echo"} -> 4
      [] k \in {"msg_id"} -> 6
      [] k \in {"node_id"} -> 7
      [] k \in {"node_ids"} -> 8
      [] k \in {"in_reply_to"} -> 11

RECURSIVE Size(_), SizeItems(_), SizeMembers(_)
Size(json) ==
    CASE json.j = "str" -> Len(json.v) + 2
      [] json.j = "num" -> Len(to_string(json.v[1]))
      [] json.j = "null" -> 4
      [] json.j = "arr" -> 2 + SizeItems(json.v)
      [] json.j = "obj" -> 2 + SizeMembers(json.v)

SizeItems(items) ==
    IF items = <<>> THEN 0
    ELSE Size(Head(items)) + (IF Len(items) > 1 THEN 1 ELSE 0) + SizeItems(Tail(items))

SizeMembers(members) ==
    IF members = <<>> THEN 0
    ELSE KeyLen(Head(members)[1]) + 3 + Size(Head(members)[2])
         + (IF Len(members) > 1 THEN 1 ELSE 0) + SizeMembers(Tail(members))

(* to_writer reaches the file descriptor only when the text does not fit   *)
(* the buffer of stdout; a text that fits is buffered whole.               *)
Spills(json) == Size(json) > StdoutCapacity

(* A JSON text of stdin with the given body members.                       *)
Wire(src, dest, members) ==
    JObj(<<<<"src", JStr(src)>>, <<"dest", JStr(dest)>>, <<"body", JObj(members)>>>>)

TypeIs(variant) == <<"type", JStr(TypeTag(variant))>>

(* The JSON texts a stream is made of: requests with and without msg_id,   *)
(* replies, and texts that do not deserialize.  One echo names its variant *)
(* by index, one generate is the array form of a Message, and so is one    *)
(* reply received as input.                                                *)
Requests ==
    { Wire(c1, n1, <<<<"msg_id", JNum(1)>>, TypeIs("Init"), <<"node_id", JStr(n1)>>,
                     <<"node_ids", JArr(<<JStr(n1), JStr(n2)>>)>>>>),
      Wire(c1, n1, <<<<"msg_id", JNum(2)>>, TypeIs("Echo"), <<"echo", JStr(hi)>>>>),
      Wire(c2, n2, <<<<"type", JNum(0)>>, <<"echo", JStr(empty)>>>>),
      Wire(c1, n1, <<TypeIs("Generate"), <<"msg_id", JNum(0)>>>>),
      JArr(<<JStr(c2), JStr(n2), JObj(<<<<"msg_id", JNull>>, TypeIs("Generate")>>)>>) }

Violations ==
    { Wire(c1, n1, <<<<"in_reply_to", JNum(0)>>, <<"type", JNum(3)>>>>),
      Wire(c1, n1, <<<<"msg_id", JNum(2)>>, TypeIs("EchoOk"), <<"echo", JStr(hi)>>>>),
      Wire(c1, n1, <<TypeIs("GenerateOk"), <<"id", JStr(<<"0", "_", "n", "1", "_", "0">>)>>>>) }

Malformed ==
    { Wire(c1, n1, <<<<"msg_id", JNum(1)>>, <<"type", JStr(<<"r", "e", "a", "d">>)>>>>),
      Wire(c1, n1, <<<<"type", JNum(6)>>, <<"msg_id", JNum(1)>>>>),
      Wire(c1, n1, <<<<"msg_id", JNum(1)>>, <<"echo", JStr(hi)>>>>),
      Wire(c1, n1, <<<<"msg_id", JNum(1)>>, TypeIs("Echo")>>),
      JArr(<<JStr(c1), JObj(<<TypeIs("Generate")>>)>>) }

Inputs == Requests \cup Violations \cup Malformed

BoundedSeq(S, n) == UNION {[1..k -> S] : k \in 0..n}

----------------------------------------------------------------------------
(* fn main and EchoNode::step.                                             *)

NoMessage == Message(empty, empty, MessageBody(None, None, InitOk))

(* rt holds one Message taken through serialization and back.              *)
RtIdle == [stage |-> "idle", m |-> NoMessage, wire |-> JNull, back |-> NoMessage]

(* gen holds the arguments and results of two calls of gen_unique_id.      *)
GenIdle ==
    [stage |-> "idle", a |-> [self_id |-> 0, dest |-> empty, ts |-> 0],
     b |-> [self_id |-> 0, dest |-> empty, ts |-> 0], ida |-> empty, idb |-> empty]

(* runs holds independent node processes, none started.                    *)
RunsIdle == <<>>

(* main before the first iteration: EchoNode { id: 0 }, nothing read,      *)
(* nothing written.  now is the second the system clock gave when the node *)
(* last read it (the epoch before any reading).  writable is whether the   *)
(* descriptor the process was started with as stdout is open for writing;  *)
(* the program never reopens it.                                           *)
Init ==
    /\ id = 0
    /\ stdin \in BoundedSeq(Inputs, MaxInputs)
    /\ pos = 1
    /\ output = <<>>
    /\ writable \in BOOLEAN
    /\ status = "running"
    /\ now = 0
    /\ log = <<>>
    /\ rt = RtIdle
    /\ gen = GenIdle
    /\ runs = RunsIdle

Running == status = "running"

(* The iterator has another JSON text to yield.                            *)
HasNext == pos <= Len(stdin)

(* The iterator yields Ok(input): the next JSON text deserializes.         *)
NextParses == Running /\ HasNext /\ ParseOk(stdin[pos])

NextInput == Parse(stdin[pos])

(* How the two calls can end on a stdout that is open for writing or not,  *)
(* for a text that spills the buffer or not, and what stdout then holds of *)
(* the line (see WriteReply).                                              *)
WriteCan(open, spills, envelope_ok, newline_ok, at_exit) ==
    IF open
    THEN /\ envelope_ok \/ spills
         /\ newline_ok => at_exit = "line"
         /\ ~envelope_ok => at_exit # "envelope"
         /\ at_exit # "nothing"
    ELSE envelope_ok /\ newline_ok /\ at_exit = "nothing"

Written(wire, envelope_ok, at_exit) ==
    CASE at_exit = "line" -> <<IF envelope_ok THEN Env(wire) ELSE Partial, NL>>
      [] at_exit = "envelope" -> <<Env(wire)>>
      [] at_exit = "partial" -> <<Partial>>
      [] at_exit = "nothing" -> <<>>

(* log is the record of the replying steps taken so far: which input      *)
(* (n), the Message read and the Message built, where in output the        *)
(* envelope bytes went (out) and how the two calls ended.                  *)
(*                                                                         *)
(* to_writer(...).context(...); write_all(b"\n").context(...)?;            *)
(* self.id += 1.  to_writer fills the buffer of stdout and fails only when *)
(* the text spills and the descriptor rejects a write; its Result is       *)
(* dropped.  write_all appends the terminator and flushes the line: if     *)
(* that fails step returns the error and main returns it, and the runtime  *)
(* flushes what is still buffered when the process exits.  at_exit is what *)
(* stdout then holds of this line: all of it, the envelope without its     *)
(* terminator, a strict prefix of the envelope, or nothing.  wire is the   *)
(* text to_writer produces for reply.                                      *)
(*                                                                         *)
(* When the descriptor is not open for writing every write(2) is rejected  *)
(* with EBADF, which std's stdout reports as a write of the whole buffer:  *)
(* both calls return Ok, the counter is incremented and stdout receives    *)
(* nothing (out is then 0).                                                *)
WriteReply(input, reply, envelope_ok, newline_ok, at_exit) ==
    \E wire \in {Serialize(reply)} :
        /\ WriteCan(writable, Spills(wire), envelope_ok, newline_ok, at_exit)
        /\ output' = output \o Written(wire, envelope_ok, at_exit)
        /\ log' = Append(log, [n |-> pos, req |-> input, reply |-> reply,
                               out |-> IF writable THEN Len(output) + 1 ELSE 0,
                               envelope_ok |-> envelope_ok, newline_ok |-> newline_ok])
        /\ id' = IF newline_ok THEN id + 1 ELSE id
        /\ status' = IF newline_ok THEN "running" ELSE "write_error"
        /\ pos' = pos + 1

(* What stdout can hold of a line once the process has exited.             *)
AtExit == {"line", "envelope", "partial", "nothing"}

(* In each arm input is the Message the iterator yielded.                  *)

(* Payload::Init { .. } *)
StepInit ==
    /\ NextParses
    /\ \E input \in {NextInput} :
           /\ input.body.payload.type = "Init"
           /\ \E envelope_ok, newline_ok \in BOOLEAN, at_exit \in AtExit :
                  WriteReply(input, InitReply(id, input), envelope_ok, newline_ok, at_exit)
    /\ UNCHANGED <<writable, stdin, now, rt, gen, runs>>

(* StepEcho that refuses an echo received before any init.                 *)
StepEcho_Gated ==
    /\ NextParses
    /\ \E input \in {NextInput} :
           /\ input.body.payload.type = "Echo"
           /\ IF \E i \in 1..Len(log) : log[i].req.body.payload.type = "Init"
              THEN \E envelope_ok, newline_ok \in BOOLEAN, at_exit \in AtExit :
                       WriteReply(input, EchoReply(id, input), envelope_ok, newline_ok,
                                  at_exit)
              ELSE /\ status' = "violation"
                   /\ pos' = pos + 1
                   /\ UNCHANGED <<id, output, log>>
    /\ UNCHANGED <<writable, stdin, now, rt, gen, runs>>

(* Payload::Echo { echo } *)
StepEcho ==
    /\ NextParses
    /\ \E input \in {NextInput} :
           /\ input.body.payload.type = "Echo"
           /\ \E envelope_ok, newline_ok \in BOOLEAN, at_exit \in AtExit :
                  WriteReply(input, EchoReply(id, input), envelope_ok, newline_ok, at_exit)
    /\ UNCHANGED <<writable, stdin, now, rt, gen, runs>>

(* The seconds the system clock can give, relative to the epoch: it is set *)
(* by the environment, forward or back, also to before the epoch.          *)
Clock == (-1)..MaxClock

(* SystemTime::now().duration_since(UNIX_EPOCH) is Ok from the epoch on.   *)
SinceEpochOk(t) == t >= 0

(* Payload::Generate { .. }: gen_unique_id reads the clock; expect panics  *)
(* on a clock before the epoch, before anything is built or written.       *)
StepGenerate ==
    /\ NextParses
    /\ \E input \in {NextInput}, t \in Clock :
           /\ input.body.payload.type = "Generate"
           /\ now' = t
           /\ IF SinceEpochOk(t)
              THEN \E envelope_ok, newline_ok \in BOOLEAN, at_exit \in AtExit :
                       WriteReply(input, GenerateReply(id, input, t),
                                  envelope_ok, newline_ok, at_exit)
              ELSE /\ status' = "panic"
                   /\ pos' = pos + 1
                   /\ UNCHANGED <<id, output, log>>
    /\ UNCHANGED <<writable, stdin, rt, gen, runs>>

(* Bail that drops the message and lets the loop go on.                    *)
Bail_Ignored ==
    /\ status' = "running"
    /\ pos' = pos + 1
    /\ UNCHANGED <<writable, id, stdin, output, now, log, rt, gen, runs>>

(* bail!("Received unexpected ... message!"): step returns Err, main       *)
(* returns it.                                                             *)
Bail ==
    /\ status' = "violation"
    /\ pos' = pos + 1
    /\ UNCHANGED <<writable, id, stdin, output, now, log, rt, gen, runs>>

(* Payload::EchoOk { .. } *)
StepEchoOk ==
    /\ NextParses
    /\ NextInput.body.payload.type = "EchoOk"
    /\ Bail

(* Payload::InitOk { .. } *)
StepInitOk ==
    /\ NextParses
    /\ NextInput.body.payload.type = "InitOk"
    /\ Bail

(* Payload::GenerateOk { .. } *)
StepGenerateOk ==
    /\ NextParses
    /\ NextInput.body.payload.type = "GenerateOk"
    /\ Bail

(* DeserializeError that skips the text and lets the loop go on.           *)
DeserializeError_Skipped ==
    /\ Running /\ HasNext /\ ~ParseOk(stdin[pos])
    /\ status' = "running"
    /\ pos' = pos + 1
    /\ UNCHANGED <<writable, id, stdin, output, now, log, rt, gen, runs>>

(* input.context("Maelstrom input could not be deserialized!")?            *)
DeserializeError ==
    /\ Running /\ HasNext /\ ~ParseOk(stdin[pos])
    /\ status' = "parse_error"
    /\ pos' = pos + 1
    /\ UNCHANGED <<writable, id, stdin, output, now, log, rt, gen, runs>>

(* The iterator is exhausted: the loop ends and main returns Ok(()).       *)
EndOfInput ==
    /\ Running /\ ~HasNext
    /\ status' = "done"
    /\ UNCHANGED <<writable, id, stdin, pos, output, now, log, rt, gen, runs>>

Next ==
    \/ StepInit
    \/ StepEcho
    \/ StepGenerate
    \/ StepEchoOk
    \/ StepInitOk
    \/ StepGenerateOk
    \/ DeserializeError
    \/ EndOfInput

Spec == Init /\ [][Next]_vars

TypeOK ==
    /\ id \in 0..MaxInputs
    /\ pos \in 1..(MaxInputs + 1)
    /\ status \in {"running", "done", "violation", "parse_error", "write_error", "panic"}
    /\ now \in Clock
    /\ writable \in BOOLEAN
    /\ Len(log) <= MaxInputs

----------------------------------------------------------------------------
(* What a run has done, read off its state.                                *)

(* The complete replies on stdout, in emission order.                      *)
Emitted == SelectSeq(output, LAMBDA t : t.t = "env")

(* The requests whose reply was written completely, terminator included.   *)
Replied == SelectSeq(log, LAMBDA e : writable /\ e.envelope_ok /\ e.newline_ok)

(* The variant a JSON text of stdin deserializes to, when ParseOk.         *)
KindOf(raw) == Parse(raw).body.payload.type

(* The reply to the request of log entry e is on stdout whole.             *)
Whole(e) == e.out > 0 /\ output[e.out].t = "env"

IsRequest(raw) == ParseOk(raw) /\ Parse(raw).body.payload.type \in {"Init", "Echo", "Generate"}

IsViolation(raw) ==
    ParseOk(raw) /\ Parse(raw).body.payload.type \in {"InitOk", "EchoOk", "GenerateOk"}

(* The request carries a msg_id: the member is there and is a number.      *)
CarriesMsgId(raw) == Has(BodyOf(raw), "msg_id") /\ Get(BodyOf(raw), "msg_id").j = "num"

----------------------------------------------------------------------------
(* C1 -- Counter monotonicity: the counter starts at 0; when N requests    *)
(* have been successfully replied to the counter is N, and the k-th reply  *)
(* emitted carries msg_id = k-1.                                           *)
C1_CounterMonotonic ==
    /\ (pos = 1 => id = 0)
    /\ id = Len(Replied)
    /\ \A k \in 1..Len(Emitted) : Get(BodyOf(Emitted[k].v), "msg_id") = JNum(k - 1)

(* C2 -- Correlation: every emitted reply's in_reply_to is the msg_id of   *)
(* the request it answers when that request carries one, and is absent     *)
(* (None once parsed) when it carries none.                                *)
C2_Correlation ==
    \A i \in 1..Len(log) :
        Whole(log[i]) =>
            LET request == stdin[log[i].n]
                reply == Parse(output[log[i].out].v)
            IN  IF CarriesMsgId(request)
                THEN reply.body.in_reply_to = Some(Get(BodyOf(request), "msg_id").v[1])
                ELSE reply.body.in_reply_to = None

C2_Witness ==
    \E i, k \in 1..Len(log) :
        /\ Whole(log[i]) /\ Whole(log[k])
        /\ CarriesMsgId(stdin[log[i].n]) /\ ~CarriesMsgId(stdin[log[k].n])
        /\ i < k /\ id = 2 /\ log[k].reply.body.payload.type = "EchoOk"

(* C3 -- A write failure is atomic with respect to the counter: a step in  *)
(* which the envelope write or the terminator write fails reports failure  *)
(* and leaves the counter as it was.                                       *)
C3_WriteFailureAtomic ==
    [][(/\ Len(log') = Len(log) + 1
        /\ ~(writable /\ log'[Len(log')].envelope_ok /\ log'[Len(log')].newline_ok))
       => (status' = "write_error" /\ id' = id)]_vars

(* C4 -- Violation handling: step on init_ok, echo_ok or generate_ok fails *)
(* with an error, writes nothing and leaves the counter unchanged,         *)
(* whatever requests were handled before.                                  *)
C4_ViolationHandling ==
    [][(Running /\ HasNext /\ IsViolation(stdin[pos]) /\ pos' # pos)
       => (status' = "violation" /\ output' = output /\ id' = id)]_vars

C4_Witness ==
    /\ status = "violation"
    /\ id > 0
    /\ KindOf(stdin[pos - 1]) = "GenerateOk"

(* C5 -- In every serialized message emitted, an absent msg_id or          *)
(* in_reply_to is omitted from the body: the key never appears with a null *)
(* value.                                                                  *)
C5_AbsentOmitted ==
    \A k \in 1..Len(Emitted) :
        \A key \in {"msg_id", "in_reply_to"} :
            Has(BodyOf(Emitted[k].v), key) => Get(BodyOf(Emitted[k].v), key).j # "null"

(* The requests step returned Ok for.                                      *)
Handled == SelectSeq(log, LAMBDA e : e.newline_ok)

(* C6 -- Reply ordering: the k-th reply on stdout is the reply to the k-th *)
(* successfully handled request, and a request's reply is fully written    *)
(* (envelope and terminator) before the next input is dispatched.          *)
C6_ReplyOrdering ==
    /\ \A k \in 1..Len(Handled) :
           k <= Len(Emitted) /\ Emitted[k] = output[Handled[k].out]
    /\ Running =>
           \A i \in 1..Len(log) :
               /\ Whole(log[i])
               /\ log[i].out < Len(output)
               /\ output[log[i].out + 1] = NL

(* C7 -- Reply kind and echo fidelity: init is answered by init_ok, echo   *)
(* {echo: S} by echo_ok {echo: S} with the same S, generate by             *)
(* generate_ok, and every reply on stdout answers a request this way.      *)
C7_ReplyKind ==
    /\ \A j \in 1..Len(output) :
           output[j].t = "env" => \E i \in 1..Len(log) : log[i].out = j
    /\ \A i \in 1..Len(log) :
           Whole(log[i]) =>
               LET request == BodyOf(stdin[log[i].n])
                   reply == BodyOf(output[log[i].out].v)
                   kind == KindOf(stdin[log[i].n])
                   answer == Get(reply, "type")
               IN  /\ kind \in {"Init", "Echo", "Generate"}
                   /\ kind = "Init" => answer = JStr(TypeTag("InitOk"))
                   /\ kind = "Echo" =>
                          /\ answer = JStr(TypeTag("EchoOk"))
                          /\ Get(reply, "echo") = Get(request, "echo")
                   /\ kind = "Generate" =>
                          /\ answer = JStr(TypeTag("GenerateOk"))
                          /\ HasString(reply, "id")

C7_Witness ==
    /\ Len(log) = 3
    /\ \A i \in 1..3 : Whole(log[i])
    /\ KindOf(stdin[1]) = "Init"
    /\ KindOf(stdin[2]) = "Echo"
    /\ Get(BodyOf(stdin[2]), "type") = JNum(0)
    /\ Get(BodyOf(stdin[2]), "echo") = JStr(empty)
    /\ KindOf(stdin[3]) = "Generate"
    /\ stdin[3].j = "arr"

(* C8 -- Every reply swaps the endpoints of its request: reply.src is      *)
(* request.dest and reply.dest is request.src.                             *)
C8_EndpointsSwapped ==
    \A i \in 1..Len(log) :
        Whole(log[i]) =>
            /\ Get(output[log[i].out].v, "src") = DestOf(stdin[log[i].n])
            /\ Get(output[log[i].out].v, "dest") = SrcOf(stdin[log[i].n])

C8_Witness ==
    /\ Len(Emitted) = 3
    /\ \E i, k, m \in 1..3 :
           /\ log[i].req.body.payload.type = "Init"
           /\ log[k].req.body.payload.type = "Echo"
           /\ log[m].req.body.payload.type = "Generate"
    /\ \A i \in 1..3 : SrcOf(stdin[i]) # DestOf(stdin[i])

(* An input the run must stop at: it does not deserialize, or it is a      *)
(* reply received as input.                                                *)
Fatal(raw) == ~ParseOk(raw) \/ IsViolation(raw)

Failed == status \in {"parse_error", "violation", "write_error", "panic"}

(* C9 -- Failures are terminal and never skipped: an input that does not   *)
(* parse or is a protocol violation stops the run at that message, with no *)
(* reply for it and the counter unchanged; no later input is processed or  *)
(* answered, and what was emitted before stays.                            *)
C9_FailuresTerminal ==
    /\ [](\A i \in 1..Len(stdin) :
             Fatal(stdin[i]) =>
                 /\ pos <= i + 1
                 /\ pos = i + 1 => status \in {"parse_error", "violation"}
                 /\ \A k \in 1..Len(log) : log[k].n < i)
    /\ [][(Running /\ HasNext /\ Fatal(stdin[pos]) /\ pos' # pos)
          => (status' \in {"parse_error", "violation"} /\ id' = id /\ output' = output)]_vars
    /\ [][Failed => UNCHANGED vars]_vars

C9_Witness ==
    /\ status = "parse_error"
    /\ pos = 2
    /\ Len(stdin) = 3
    /\ IsRequest(stdin[3])

----------------------------------------------------------------------------
(* Serialization round trip, for Messages of every payload kind.           *)

RtIds == {None, Some(0), Some(1)}

RtPayloads ==
    {Echo(empty), Echo(hi), EchoOk(empty), EchoOk(hi), InitP(n1, <<n1, n2>>),
     InitP(n2, <<>>), InitOk, Generate, GenerateOk(gen_unique_id(1, n1, 0))}

RtMessages ==
    {Message(ends[1], ends[2], MessageBody(msg_id, in_reply_to, payload)) :
        ends \in {<<c1, n1>>, <<n2, c2>>}, msg_id \in RtIds, in_reply_to \in RtIds,
        payload \in RtPayloads}

RtInit ==
    /\ id = 0
    /\ stdin = <<>>
    /\ pos = 1
    /\ output = <<>>
    /\ writable = TRUE
    /\ status = "running"
    /\ now = 0
    /\ log = <<>>
    /\ rt \in {[stage |-> "built", m |-> m, wire |-> JNull, back |-> NoMessage] :
                  m \in RtMessages}
    /\ gen = GenIdle
    /\ runs = RunsIdle

(* serde_json serialization of rt.m.                                       *)
RtSerialize ==
    /\ rt.stage = "built"
    /\ rt' = [rt EXCEPT !.stage = "serialized", !.wire = Serialize(rt.m)]
    /\ UNCHANGED <<writable, id, stdin, pos, output, status, now, log, gen, runs>>

(* serde_json deserialization of what was serialized.                      *)
RtParse ==
    /\ rt.stage = "serialized"
    /\ rt' = IF ParseOk(rt.wire)
             THEN [rt EXCEPT !.stage = "parsed", !.back = Parse(rt.wire)]
             ELSE [rt EXCEPT !.stage = "rejected"]
    /\ UNCHANGED <<writable, id, stdin, pos, output, status, now, log, gen, runs>>

RtNext == RtSerialize \/ RtParse

RTSpec == RtInit /\ [][RtNext]_vars

(* C10 -- Round trip: parsing the serialized form of a Message of any of   *)
(* the six kinds, with msg_id and in_reply_to present or absent, succeeds  *)
(* and gives back an equal Message.                                        *)
C10_RoundTrip ==
    /\ rt.stage # "rejected"
    /\ rt.stage = "parsed" => rt.back = rt.m

C10_Witness ==
    /\ rt.stage = "parsed"
    /\ rt.m.body.msg_id = None
    /\ rt.m.body.in_reply_to = None
    /\ rt.m.body.payload.type = "Init"
    /\ rt.back.body.payload.node_ids = <<n1, n2>>

----------------------------------------------------------------------------
(* The generate_ok replies built so far, in order.                         *)
Generated == SelectSeq(log, LAMBDA e : e.reply.body.payload.type = "GenerateOk")

(* C11 -- Generate uniqueness on one node: the ids carried by the          *)
(* generate_ok replies of one run are pairwise distinct, also for the same *)
(* destination in the same second and with init and echo requests between. *)
C11_GenerateUnique ==
    \A i, k \in 1..Len(Generated) :
        i # k => Generated[i].reply.body.payload.id # Generated[k].reply.body.payload.id

C11_Witness ==
    /\ Len(log) = 3
    /\ log[2].reply.body.payload.type \in {"InitOk", "EchoOk"}
    /\ \E t \in 0..MaxClock :
           /\ log[1].reply.body.payload = GenerateOk(gen_unique_id(0, n1, t))
           /\ log[3].reply.body.payload = GenerateOk(gen_unique_id(2, n1, t))

(* C14 -- Output framing: stdout is a concatenation of units, each one     *)
(* complete serialized reply directly followed by one newline; the number  *)
(* of newlines equals the number of complete replies and the counter.      *)
C14_OutputFraming ==
    /\ Len(output) % 2 = 0
    /\ \A i \in 1..Len(output) :
           IF i % 2 = 1 THEN output[i].t = "env" ELSE output[i] = NL
    /\ Len(SelectSeq(output, LAMBDA t : t = NL)) = Len(Emitted)
    /\ Len(Emitted) = id

(* C15 -- Generate uses the pre-increment counter and the request's dest:  *)
(* the id of a generate_ok reply is seconds, request.dest and the counter  *)
(* before the step, joined by underscores; its last component is the       *)
(* reply's msg_id and its middle component the reply's src.                *)
C15_GenerateIdFormat ==
    [][(/\ Len(log') = Len(log) + 1
        /\ KindOf(stdin[pos]) = "Generate")
       => LET e == log'[Len(log')]
              dest == DestOf(stdin[pos]).v
              expected == to_string(now') \o <<"_">> \o dest \o <<"_">> \o to_string(id)
          IN  /\ e.reply.body.payload = GenerateOk(expected)
              /\ e.reply.body.msg_id = Some(id)
              /\ e.reply.src = dest
              /\ (e.out > 0 /\ output'[e.out].t = "env") =>
                     /\ Get(BodyOf(output'[e.out].v), "id") = JStr(expected)
                     /\ Get(BodyOf(output'[e.out].v), "msg_id") = JNum(id)
                     /\ Get(output'[e.out].v, "src") = JStr(dest)]_vars

C15_Witness ==
    \E i \in 1..Len(log) :
        /\ Whole(log[i])
        /\ Has(BodyOf(output[log[i].out].v), "id")
        /\ Get(BodyOf(output[log[i].out].v), "id") = JStr(<<"1", "_", "n", "2", "_", "2">>)
        /\ Get(BodyOf(output[log[i].out].v), "msg_id") = JNum(2)

(* C17 -- in_reply_to is present iff the body is a reply: every init_ok,   *)
(* echo_ok and generate_ok body emitted has in_reply_to present, equal to  *)
(* the msg_id of the request it answers.                                   *)
C17_InReplyToIffReply ==
    \A i \in 1..Len(log) :
        Whole(log[i]) =>
            LET request == BodyOf(stdin[log[i].n])
                reply == BodyOf(output[log[i].out].v)
            IN  /\ Get(reply, "type").v \in
                       {TypeTag("InitOk"), TypeTag("EchoOk"), TypeTag("GenerateOk")}
                /\ Has(reply, "in_reply_to")
                /\ Get(reply, "in_reply_to").j = "num"
                /\ CarriesMsgId(stdin[log[i].n])
                /\ Get(reply, "in_reply_to") = Get(request, "msg_id")

(* C17, amended -- every init_ok, echo_ok and generate_ok body emitted has *)
(* in_reply_to present (a number) exactly when the request it answers      *)
(* carries a msg_id, and then it equals that msg_id.                       *)
C17_InReplyToIffCarried ==
    \A i \in 1..Len(log) :
        Whole(log[i]) =>
            LET request == BodyOf(stdin[log[i].n])
                reply == BodyOf(output[log[i].out].v)
            IN  /\ Get(reply, "type").v \in
                       {TypeTag("InitOk"), TypeTag("EchoOk"), TypeTag("GenerateOk")}
                /\ (Get(reply, "in_reply_to").j = "num") <=> CarriesMsgId(stdin[log[i].n])
                /\ CarriesMsgId(stdin[log[i].n]) =>
                       Get(reply, "in_reply_to") = Get(request, "msg_id")

C17_Witness ==
    /\ Len(log) = 2
    /\ Whole(log[1]) /\ Whole(log[2])
    /\ KindOf(stdin[1]) = "Init"
    /\ Get(BodyOf(output[log[1].out].v), "in_reply_to") = JNum(1)
    /\ ~CarriesMsgId(stdin[2])
    /\ Get(BodyOf(output[log[2].out].v), "in_reply_to").j # "num"

(* The tag of the reply variant that answers a request variant.            *)
OkTag(variant) ==
    CASE variant = "Init" -> TypeTag("InitOk")
      [] variant = "Echo" -> TypeTag("EchoOk")
      [] variant = "Generate" -> TypeTag("GenerateOk")

(* The step on the next input panicked in gen_unique_id.                   *)
Panicked == status = "panic"

(* C20 -- The node keeps no state but its counter and never gates on the   *)
(* handshake: every request is answered whatever was received before (an   *)
(* echo or generate before any init, a second init), with the reply's src  *)
(* taken from the request's dest and its msg_id from the counter; a step   *)
(* changes only the counter and appends to the output.  The one request    *)
(* step without a reply is a generate whose clock reading is before the    *)
(* epoch, which panics whatever was received before.                       *)
C20_OnlyCounter ==
    [][(Running /\ HasNext /\ IsRequest(stdin[pos]) /\ pos' # pos)
       => /\ stdin' = stdin /\ rt' = rt /\ gen' = gen /\ runs' = runs
          /\ Panicked' <=> (KindOf(stdin[pos]) = "Generate" /\ ~SinceEpochOk(now'))
          /\ Panicked' => (id' = id /\ output' = output /\ log' = log)
          /\ ~Panicked' =>
               /\ Len(log') = Len(log) + 1
               /\ status' \in {"running", "write_error"}
               /\ id' \in {id, id + 1}
               /\ status' = "running" => id' = id + 1
               /\ IF writable THEN Len(output') > Len(output) ELSE output' = output
               /\ SubSeq(output', 1, Len(output)) = output
               /\ LET e == log'[Len(log')]
                  IN  (e.out > 0 /\ output'[e.out].t = "env") =>
                          /\ Get(output'[e.out].v, "src") = DestOf(stdin[pos])
                          /\ Get(BodyOf(output'[e.out].v), "msg_id") = JNum(id)
                          /\ Get(BodyOf(output'[e.out].v), "type").v =
                                 OkTag(KindOf(stdin[pos]))]_vars

C20_Witness ==
    /\ Len(log) = 3
    /\ writable
    /\ \A i \in 1..3 : log[i].envelope_ok /\ log[i].newline_ok
    /\ KindOf(stdin[1]) = "Echo"
    /\ KindOf(stdin[2]) = "Init"
    /\ KindOf(stdin[3]) = "Init"
    /\ DestOf(stdin[1]) # Get(BodyOf(stdin[2]), "node_id")
    /\ Get(BodyOf(output[log[3].out].v), "type").v = TypeTag("InitOk")
    /\ Get(output[log[1].out].v, "src") = JStr(n2)

----------------------------------------------------------------------------
(* Runs over streams of requests only, with the main loop scheduled: the   *)
(* process is never suspended for ever, and a text already on stdin is     *)
(* read without blocking.                                                  *)

LiveInit == Init /\ \A i \in 1..Len(stdin) : IsRequest(stdin[i])

MainLoop == StepInit \/ StepEcho \/ StepGenerate \/ EndOfInput

LiveNext == StepInit \/ StepEcho \/ StepGenerate \/ EndOfInput

LiveSpec == LiveInit /\ [][LiveNext]_vars /\ WF_vars(MainLoop)

(* Every write so far was accepted by stdout: the descriptor takes writes  *)
(* and no call returned an error.                                          *)
WritesSucceed ==
    writable /\ \A i \in 1..Len(log) : log[i].envelope_ok /\ log[i].newline_ok

(* main returned Ok(()) with the whole stream read and one reply per text. *)
CleanExit ==
    /\ status = "done"
    /\ pos = Len(stdin) + 1
    /\ Len(Emitted) = Len(stdin)
    /\ Len(output) = 2 * Len(stdin)

(* C13 -- Clean termination: on a finite stream of parseable init, echo    *)
(* and generate messages, with writes succeeding, the node eventually has  *)
(* read the whole stream, emitted exactly one reply per input and exited   *)
(* successfully; it never stops early.                                     *)
C13_CleanTermination ==
    /\ []((status # "running" /\ WritesSucceed) => CleanExit)
    /\ ([]WritesSucceed) => <>CleanExit

----------------------------------------------------------------------------
(* Runs over streams of requests one of which is an echo whose reply does  *)
(* not fit the buffer of stdout.                                            *)

SpillInputs ==
    { Wire(c1, n1, <<<<"msg_id", JNum(1)>>, TypeIs("Init"), <<"node_id", JStr(n1)>>,
                     <<"node_ids", JArr(<<JStr(n1), JStr(n2)>>)>>>>),
      Wire(c1, n1, <<<<"msg_id", JNum(2)>>, TypeIs("Echo"), <<"echo", JStr(long)>>>>),
      Wire(c1, n1, <<TypeIs("Generate"), <<"msg_id", JNum(0)>>>>) }

SpillInit ==
    /\ id = 0
    /\ stdin \in BoundedSeq(SpillInputs, MaxInputs)
    /\ pos = 1
    /\ output = <<>>
    /\ writable \in BOOLEAN
    /\ status = "running"
    /\ now = 0
    /\ log = <<>>
    /\ rt = RtIdle
    /\ gen = GenIdle
    /\ runs = RunsIdle

SpillNext == StepInit \/ StepEcho \/ StepGenerate \/ EndOfInput

SpillSpec == SpillInit /\ [][SpillNext]_vars

----------------------------------------------------------------------------
(* gen_unique_id as a function: two calls with arguments of any counter,   *)
(* destination string and second.                                          *)

GenDests == {n1, n2, <<"n">>, <<"n", "_", "1">>, <<"1">>, <<"1", "_", "1">>}

GenArgs == [self_id : 0..MaxCounter, dest : GenDests, ts : 0..MaxClock]

GenInit ==
    /\ id = 0
    /\ stdin = <<>>
    /\ pos = 1
    /\ output = <<>>
    /\ writable = TRUE
    /\ status = "running"
    /\ now = 0
    /\ log = <<>>
    /\ rt = RtIdle
    /\ gen \in {[stage |-> "args", a |-> a, b |-> b, ida |-> empty, idb |-> empty] :
                   a \in GenArgs, b \in GenArgs}
    /\ runs = RunsIdle

(* self.gen_unique_id(dest) on a node whose counter is self_id, at ts.     *)
GenCall ==
    /\ gen.stage = "args"
    /\ gen' = [gen EXCEPT !.stage = "done",
                          !.ida = gen_unique_id(gen.a.self_id, gen.a.dest, gen.a.ts),
                          !.idb = gen_unique_id(gen.b.self_id, gen.b.dest, gen.b.ts)]
    /\ UNCHANGED <<writable, id, stdin, pos, output, status, now, log, rt, runs>>

GenNext == GenCall

GenSpec == GenInit /\ [][GenNext]_vars

(* The characters of the model in byte order, and the order of Strings     *)
(* (byte-wise lexicographic, a proper prefix first).                       *)
Chars == <<"0", "1", "2", "3", "4", "5", "6", "7", "8", "9", "_", "c", "h", "i", "n">>

Ord(c) == CHOOSE i \in 1..Len(Chars) : Chars[i] = c

RECURSIVE LexLess(_, _)
LexLess(s, t) ==
    IF t = <<>> THEN FALSE
    ELSE IF s = <<>> THEN TRUE
    ELSE IF Head(s) = Head(t) THEN LexLess(Tail(s), Tail(t))
    ELSE Ord(Head(s)) < Ord(Head(t))

(* C16 -- Documented collision limitation: within one second there exist   *)
(* two generate calls with identical counter values and differing          *)
(* destination strings whose ids are equal.                                *)
C16_CollisionExists ==
    gen.stage = "done" =>
        \E a \in GenArgs, b \in GenArgs :
            /\ a.ts = b.ts
            /\ a.self_id = b.self_id
            /\ a.dest # b.dest
            /\ gen_unique_id(a.self_id, a.dest, a.ts) = gen_unique_id(b.self_id, b.dest, b.ts)

(* C16, amended -- within one second, two generate calls with identical    *)
(* counter values and differing destination strings never produce the same *)
(* identifier.                                                             *)
C16_NoCollision ==
    (/\ gen.stage = "done"
     /\ gen.a.ts = gen.b.ts
     /\ gen.a.self_id = gen.b.self_id
     /\ gen.a.dest # gen.b.dest) => gen.ida # gen.idb

C16_Witness ==
    /\ gen.stage = "done"
    /\ gen.a = [self_id |-> 1, dest |-> <<"n">>, ts |-> 1]
    /\ gen.b = [self_id |-> 1, dest |-> <<"n", "_", "1">>, ts |-> 1]
    /\ gen.ida = <<"1", "_", "n", "_", "1">>
    /\ gen.idb = <<"1", "_", "n", "_", "1", "_", "1">>

(* C18 -- Sortability: of two ids generated on the same node for the same  *)
(* destination, the first at an earlier or equal second and with a smaller *)
(* counter, the first is lexicographically smaller.                        *)
C18_Sortable ==
    (/\ gen.stage = "done"
     /\ gen.a.dest = gen.b.dest
     /\ gen.a.ts <= gen.b.ts
     /\ gen.a.self_id < gen.b.self_id) => LexLess(gen.ida, gen.idb)

----------------------------------------------------------------------------
(* Independent node processes: each has its own EchoNode (counter from 0)  *)
(* and its own streams, its own stdout (open for writing or not, and       *)
(* accepting or rejecting each write), and each generate step of each      *)
(* falls in some second of the wall clock.  The first is addressed as n1,  *)
(* the second as n1 or n2.                                                 *)

RunIds == {1, 2}

(* where[i] is the place in out of the reply to the i-th request, 0 when   *)
(* stdout received nothing of it.                                          *)
FreshRun(dest, open) ==
    [dest |-> dest, writable |-> open, id |-> 0, ins |-> <<>>, at |-> <<>>,
     where |-> <<>>, out |-> <<>>, status |-> "running"]

(* The requests a client sends to the node addressed as dest.              *)
RunRequests(dest) ==
    { Message(c1, dest, MessageBody(Some(1), None, InitP(dest, <<n1, n2>>))),
      Message(c1, dest, MessageBody(Some(2), None, Echo(hi))),
      Message(c1, dest, MessageBody(None, None, Generate)) }

(* match input.body.payload for the three request kinds.                   *)
ReplyTo(self_id, input, curr_ts) ==
    CASE input.body.payload.type = "Init" -> InitReply(self_id, input)
      [] input.body.payload.type = "Echo" -> EchoReply(self_id, input)
      [] input.body.payload.type = "Generate" -> GenerateReply(self_id, input, curr_ts)

RunsInit ==
    /\ id = 0
    /\ stdin = <<>>
    /\ pos = 1
    /\ output = <<>>
    /\ writable = TRUE
    /\ status = "running"
    /\ now = 0
    /\ log = <<>>
    /\ rt = RtIdle
    /\ gen = GenIdle
    /\ runs \in {<<FreshRun(n1, open1), FreshRun(dest, open2)>> :
                    dest \in {n1, n2}, open1 \in BOOLEAN, open2 \in BOOLEAN}

(* One iteration of main's loop in process r: step on the next request,    *)
(* the two writes, self.id += 1 when step has not returned an error.  A    *)
(* generate reads the wall clock, and panics and ends the process when     *)
(* that is before the epoch; at records the second read (None for a        *)
(* request that reads no clock).                                           *)
RunStep(r) ==
    /\ runs[r].status = "running"
    /\ Len(runs[r].ins) < MaxRunInputs
    /\ \E input \in RunRequests(runs[r].dest), t \in Clock, half \in {0, 1} :
           LET reads == input.body.payload.type = "Generate"
           IN  /\ ~reads => (t = 0 /\ half = 0)
               /\ IF reads /\ ~SinceEpochOk(t)
                  THEN runs' = [runs EXCEPT ![r] =
                                   [dest |-> runs[r].dest,
                                    writable |-> runs[r].writable,
                                    id |-> runs[r].id,
                                    ins |-> Append(runs[r].ins, input),
                                    at |-> Append(runs[r].at, Some(t)),
                                    where |-> Append(runs[r].where, 0),
                                    out |-> runs[r].out,
                                    status |-> "panic"]]
                  ELSE \E wire \in {Serialize(ReplyTo(runs[r].id, input,
                                                      as_secs([secs |-> t, half |-> half])))} :
                       \E spills \in {Spills(wire)} :
                       \E envelope_ok \in BOOLEAN, newline_ok \in BOOLEAN, at_exit \in AtExit :
                           /\ WriteCan(runs[r].writable, spills, envelope_ok, newline_ok, at_exit)
                           /\ runs' = [runs EXCEPT ![r] =
                                          [dest |-> runs[r].dest,
                                           writable |-> runs[r].writable,
                                           id |-> IF newline_ok THEN runs[r].id + 1
                                                  ELSE runs[r].id,
                                           ins |-> Append(runs[r].ins, input),
                                           at |-> Append(runs[r].at,
                                                         IF reads THEN Some(t) ELSE None),
                                           where |-> Append(runs[r].where,
                                                            IF runs[r].writable
                                                            THEN Len(runs[r].out) + 1 ELSE 0),
                                           out |-> runs[r].out \o
                                                       Written(wire, envelope_ok, at_exit),
                                           status |-> IF newline_ok THEN "running"
                                                      ELSE "write_error"]]
    /\ UNCHANGED <<writable, id, stdin, pos, output, status, now, log, rt, gen>>

RunsNext == \E r \in RunIds : RunStep(r)

RunsSpec == RunsInit /\ [][RunsNext]_vars

(* The complete reply of process r to its i-th request is on its stdout.   *)
Answered(r, i) == runs[r].where[i] > 0 /\ runs[r].out[runs[r].where[i]].t = "env"

(* The serialized reply of process r to its i-th request.                  *)
RunReply(r, i) == runs[r].out[runs[r].where[i]].v

IsGenerate(r, i) == runs[r].ins[i].body.payload.type = "Generate"

(* The stdout of process r has accepted every write made so far.           *)
RunWritesSucceed(r) == runs[r].writable /\ runs[r].status # "write_error"

(* C12 -- Generate uniqueness across nodes: nodes addressed by distinct    *)
(* node identifiers, each with its own counter from 0, never put the same  *)
(* id in generate_ok replies made in the same second.                      *)
C12_UniqueAcrossNodes ==
    \A r1, r2 \in 1..Len(runs) :
        runs[r1].dest # runs[r2].dest =>
            \A i \in 1..Len(runs[r1].ins), k \in 1..Len(runs[r2].ins) :
                (/\ IsGenerate(r1, i) /\ Answered(r1, i)
                 /\ IsGenerate(r2, k) /\ Answered(r2, k)
                 /\ runs[r1].at[i] = runs[r2].at[k])
                => Get(BodyOf(RunReply(r1, i)), "id") # Get(BodyOf(RunReply(r2, k)), "id")

C12_Witness ==
    /\ Len(runs) = 2
    /\ Len(runs[1].ins) = 2 /\ Len(runs[2].ins) = 2
    /\ Answered(1, 2) /\ Answered(2, 2)
    /\ Get(BodyOf(RunReply(1, 2)), "type").v = TypeTag("GenerateOk")
    /\ Get(BodyOf(RunReply(1, 2)), "id") = JStr(<<"1", "_", "n", "1", "_", "1">>)
    /\ Get(BodyOf(RunReply(2, 2)), "type").v = TypeTag("GenerateOk")
    /\ Get(BodyOf(RunReply(2, 2)), "id") = JStr(<<"1", "_", "n", "2", "_", "1">>)

(* C19 -- Determinism: two runs of a fresh node fed the same input         *)
(* sequence emit identical output sequences.                               *)
C19_Deterministic ==
    \A r1, r2 \in 1..Len(runs) :
        runs[r1].ins = runs[r2].ins => runs[r1].out = runs[r2].out

(* C19, amended -- two runs of a fresh node fed the same input sequence,   *)
(* with every write succeeding, emit identical output sequences provided   *)
(* each generate request is handled in the same wall-clock second in both: *)
(* the output is a function of the input messages and of those seconds.    *)
(* The function is written out here from the request alone: the i-th line  *)
(* is the request with its endpoints swapped, msg_id i-1, the request's    *)
(* msg_id (or null) as in_reply_to, the _ok tag of its kind and the echo   *)
(* string or the id seconds_dest_(i-1).  (Runs whose stdout differs, one   *)
(* rejecting a write or not open for writing, differ in output whatever    *)
(* the clock gives.)                                                       *)
C19_DeterministicGivenClock ==
    /\ \A r1, r2 \in 1..Len(runs) :
           (/\ runs[r1].ins = runs[r2].ins
            /\ RunWritesSucceed(r1) /\ RunWritesSucceed(r2)
            /\ \A i \in 1..Len(runs[r1].ins) :
                   IsGenerate(r1, i) => runs[r1].at[i] = runs[r2].at[i])
           => runs[r1].out = runs[r2].out
    /\ \A r \in 1..Len(runs) :
           RunWritesSucceed(r) =>
               LET replied == IF runs[r].status = "panic" THEN Len(runs[r].ins) - 1
                              ELSE Len(runs[r].ins)
               IN  /\ Len(runs[r].out) = 2 * replied
                   /\ \A i \in 1..replied :
                          LET input == runs[r].ins[i]
                              kind == input.body.payload.type
                              in_reply_to == IF input.body.msg_id = None THEN JNull
                                             ELSE JNum(input.body.msg_id[1])
                              fields ==
                                  CASE kind = "Init" -> <<>>
                                    [] kind = "Echo" ->
                                           <<<<"echo", JStr(input.body.payload.echo)>>>>
                                    [] kind = "Generate" ->
                                           <<<<"id", JStr(to_string(runs[r].at[i][1])
                                                          \o <<"_">> \o input.dest
                                                          \o <<"_">> \o to_string(i - 1))>>>>
                          IN  /\ runs[r].out[2 * i - 1] =
                                     Env(Wire(input.dest, input.src,
                                              <<<<"msg_id", JNum(i - 1)>>,
                                                <<"in_reply_to", in_reply_to>>,
                                                <<"type", JStr(OkTag(kind))>>>> \o fields))
                              /\ runs[r].out[2 * i] = NL

C19_Witness ==
    /\ Len(runs) = 2
    /\ runs[1].ins = runs[2].ins
    /\ Len(runs[1].ins) = 2
    /\ IsGenerate(1, 1) /\ ~IsGenerate(1, 2)
    /\ RunWritesSucceed(1) /\ RunWritesSucceed(2)
    /\ runs[1].at[1] = Some(MaxClock) /\ runs[2].at[1] = Some(MaxClock)
    /\ Answered(1, 2) /\ Answered(2, 2)
    /\ runs[1].out = runs[2].out

====
